---- MODULE Spec2Model ----
(***************************************************************************)
(* Character-device file operations of the XDMA2 scatter-gather DMA engine *)
(* (char_sgdma_open / close / read_write / ioctl).  Each handler is split  *)
(* into one step per access to shared engine state, so that concurrent     *)
(* callers interleave exactly where the kernel lets them interleave.       *)
(***************************************************************************)
EXTENDS Integers, FiniteSets, Sequences, TLC

(* ---- bounds of the model ---------------------------------------------- *)
NumCallers == 2     \* concurrent caller threads
MaxLen     == 1     \* largest byte count / length a caller supplies
MaxPos     == 1     \* largest device address / file position a caller supplies
TaskSize   == 2     \* first address outside the user address range

Callers == 1..NumCallers
NoCaller == NumCallers + 1

(* ---- errno values used by the handlers -------------------------------- *)
EBUSY    == 16
EACCES   == 13
EFAULT   == 14
ENOTTY   == 25
ENOTSUPP == 524

(* results the external submission routines may report besides a count *)
SubmitErrors == {-5}

(* struct xdma2_performance_ioctl, one unit per field *)
PerfSize == 2

XENGINE_BUSY_BIT == "XENGINE_BUSY_BIT"
XENGINE_OPEN_BIT == "XENGINE_OPEN_BIT"

DMA_TO_DEVICE   == "DMA_TO_DEVICE"
DMA_FROM_DEVICE == "DMA_FROM_DEVICE"

XDMA_H2C == "XDMA_H2C"
XDMA_C2H == "XDMA_C2H"
TransferModes == {XDMA_H2C, XDMA_C2H, "XDMA_OTHER"}

O_RDONLY == "O_RDONLY"
O_WRONLY == "O_WRONLY"
O_RDWR   == "O_RDWR"
AccModes == {O_RDONLY, O_WRONLY, O_RDWR}

(* user pointers: NULL, a buffer inside the user range, a kernel address *)
NULL      == 0
UserBuf   == NULL + 1
KernelBuf == TaskSize
Pointers  == {NULL, UserBuf, KernelBuf}

NoFlags == [acc |-> "none", trunc |-> FALSE]
NoPerf  == [transfer_size |-> 0, result |-> 0]

VARIABLES
  engine,         \* struct xdma2_engine: flags, dir, streaming, non_incr_addr,
                  \* eop_flush, addr_align, transfer_params, xdma2_perf
  holder,         \* caller whose test_and_set of the busy bit succeeded last
                  \* and who has not cleared it yet (NoCaller if none)
  nopen,          \* number of successful, not yet released opens
  pc,             \* position of each caller inside its handler
  op,             \* file operation each caller is running
  path,           \* exit path the running call has taken so far
  rv,             \* rv / ret_val local of the running handler
  pos,            \* *pos of the running read/write call
  set,            \* local of ioctl_do_addrmode_set
  transfer_mode,  \* local of ioctl_do_submit_transfer
  transfer_res,   \* local of ioctl_do_submit_transfer
  f_flags,        \* filp->f_flags of the running open call
  user_perf,      \* caller's struct xdma2_performance_ioctl
  user_length,    \* caller's xdma2_transfer_request.length
  user_int        \* caller's int written by put_user

vars == <<engine, holder, nopen, pc, op, path, rv, pos, set, transfer_mode,
          transfer_res, f_flags, user_perf, user_length, user_int>>

locals == <<rv, pos, set, transfer_mode, transfer_res, f_flags,
            user_perf, user_length, user_int>>

(* ---- kernel primitives ------------------------------------------------ *)
test_bit(bit, flags)  == bit \in flags
set_bit(bit, flags)   == flags \cup {bit}
clear_bit(bit, flags) == flags \ {bit}

(* access_ok(): the region [ptr, ptr+len) lies inside the user range *)
access_assert(ptr, len) == IF ptr + len <= TaskSize THEN 0 ELSE -EFAULT

(* copy_from_user(): the first PerfSize-left fields are copied, the tail  *)
(* is zero-filled; the number of units left uncopied is the result.       *)
copy_from_user(src, left) ==
  [transfer_size |-> IF left < PerfSize THEN src.transfer_size ELSE 0,
   result        |-> IF left < PerfSize - 1 THEN src.result ELSE 0]

(* copy_to_user(): the first PerfSize-left fields are copied, the tail of *)
(* the destination is left alone.                                         *)
copy_to_user(dst, src, left) ==
  [transfer_size |-> IF left < PerfSize THEN src.transfer_size
                                          ELSE dst.transfer_size,
   result        |-> IF left < PerfSize - 1 THEN src.result ELSE dst.result]

(* variant: the mode handed in is not stored *)
engine_addrmode_set_ignored(e, val) == e

(* engine_addrmode_set() *)
engine_addrmode_set(e, val) == [e EXCEPT !.non_incr_addr = val]

Upd(f, t, v) == [f EXCEPT ![t] = v]

Busy == test_bit(XENGINE_BUSY_BIT, engine.flags)
Open == test_bit(XENGINE_OPEN_BIT, engine.flags)

(* ---- initial state: a freshly constructed engine, nobody inside ------- *)
Init ==
  /\ \E d \in {DMA_TO_DEVICE, DMA_FROM_DEVICE}, s \in BOOLEAN :
       engine = [flags |-> {}, dir |-> d, streaming |-> s,
                 non_incr_addr |-> FALSE, eop_flush |-> FALSE,
                 addr_align |-> 1,
                 transfer_params |-> [buf |-> NULL, length |-> 0, ep_addr |-> 0],
                 xdma2_perf |-> NoPerf]
  /\ holder = NoCaller
  /\ nopen = 0
  /\ pc = [t \in Callers |-> "idle"]
  /\ op = [t \in Callers |-> "none"]
  /\ path = [t \in Callers |-> "none"]
  /\ rv = [t \in Callers |-> 0]
  /\ pos = [t \in Callers |-> 0]
  /\ set = [t \in Callers |-> FALSE]
  /\ transfer_mode = [t \in Callers |-> "none"]
  /\ transfer_res = [t \in Callers |-> 0]
  /\ f_flags = [t \in Callers |-> NoFlags]
  /\ user_perf = [t \in Callers |-> NoPerf]
  /\ user_length = [t \in Callers |-> 0]
  /\ user_int = [t \in Callers |-> 0]

(* A read, write or ioctl needs an open file; the file is released only   *)
(* after every call on it has returned.                                    *)
FileOps == {"read_write", "perf_test", "addrmode_set", "addrmode_get",
            "align_get", "submit_transfer", "unknown"}
InFileCall(t) == op[t] \in FileOps
(* The return statement of a handler is a step of its own (Return), local *)
(* to the caller; it is taken before any other handler step, which loses  *)
(* no interleaving of the handlers' accesses to the engine.               *)
At(t, label) == pc[t] = label /\ \A u \in Callers : pc[u] # "ret"
(* Callers are interchangeable: a call is started by the lowest-numbered *)
(* caller that is outside.                                                 *)
Outside(t) == At(t, "idle") /\ \A u \in Callers : u < t => pc[u] # "idle"
CanCall(t) == Outside(t) /\ nopen > 0

(* variant: the bit is set without looking at its old value *)
AcquireBusyNoTest(t, next) ==
  /\ engine' = [engine EXCEPT !.flags = set_bit(XENGINE_BUSY_BIT, @)]
  /\ holder' = t
  /\ pc' = Upd(pc, t, next)
  /\ path' = Upd(path, t, "acquired")
  /\ UNCHANGED rv

(* variant: the loser is let through without becoming the holder *)
AcquireBusyLoserGoesOn(t, next) ==
  /\ engine' = [engine EXCEPT !.flags = set_bit(XENGINE_BUSY_BIT, @)]
  /\ holder' = IF test_bit(XENGINE_BUSY_BIT, engine.flags) THEN holder ELSE t
  /\ pc' = Upd(pc, t, next)
  /\ path' = Upd(path, t, "acquired")
  /\ UNCHANGED rv

(* test_and_set_bit(XENGINE_BUSY_BIT) at the head of a critical section:   *)
(* the loser leaves with -EBUSY, the winner goes on to pc value next.      *)
AcquireBusy(t, next) ==
  IF test_bit(XENGINE_BUSY_BIT, engine.flags)
  THEN /\ rv' = Upd(rv, t, -EBUSY)
       /\ pc' = Upd(pc, t, "ret")
       /\ path' = Upd(path, t, "busy")
       /\ UNCHANGED <<engine, holder>>
  ELSE /\ engine' = [engine EXCEPT !.flags = set_bit(XENGINE_BUSY_BIT, @)]
       /\ holder' = t
       /\ pc' = Upd(pc, t, next)
       /\ path' = Upd(path, t, "acquired")
       /\ UNCHANGED rv

(* variant: the return statement without the clear_bit before it *)
ReleaseBusyForgets(t) ==
  /\ pc' = Upd(pc, t, "ret")
  /\ UNCHANGED <<engine, holder>>

(* clear_bit(XENGINE_BUSY_BIT) followed by the return statement *)
ReleaseBusy(t) ==
  /\ engine' = [engine EXCEPT !.flags = clear_bit(XENGINE_BUSY_BIT, @)]
  /\ holder' = NoCaller
  /\ pc' = Upd(pc, t, "ret")

(* results xdma2_xfer_submit() may report for the staged parameters *)
xdma2_xfer_submit_results(e) == SubmitErrors \cup (0..e.transfer_params.length)

(* ---- char_sgdma_read_write ------------------------------------------- *)
rw_test_and_set(t) ==
  /\ CanCall(t)
  /\ op' = Upd(op, t, "read_write")
  /\ AcquireBusy(t, "rw_stage")
  /\ UNCHANGED <<nopen, pos, set, transfer_mode, transfer_res, f_flags,
                 user_perf, user_length, user_int>>

rw_stage(t) ==
  /\ At(t, "rw_stage")
  /\ \E buf \in Pointers, count \in 0..MaxLen, p \in 0..MaxPos :
       /\ engine' = [engine EXCEPT
            !.transfer_params =
               [buf |-> buf, length |-> count,
                ep_addr |-> IF ~engine.streaming THEN p ELSE @.ep_addr]]
       /\ pos' = Upd(pos, t, p)
  /\ pc' = Upd(pc, t, "rw_submit")
  /\ UNCHANGED <<holder, nopen, op, path, rv, set, transfer_mode, transfer_res,
                 f_flags, user_perf, user_length, user_int>>

rw_submit(t) ==
  /\ At(t, "rw_submit")
  /\ \E r \in xdma2_xfer_submit_results(engine) :
       /\ rv' = Upd(rv, t, r)
       /\ path' = Upd(path, t, IF r < 0 THEN "submit_failed" ELSE "submitted")
  /\ pc' = Upd(pc, t, "rw_pos")
  /\ UNCHANGED <<engine, holder, nopen, op, pos, set, transfer_mode,
                 transfer_res, f_flags, user_perf, user_length, user_int>>

(* variant: the address mode is not consulted *)
AdvancedPosIgnoresAddrMode(e, p, r) ==
  IF ~e.streaming /\ r > 0 THEN p + r ELSE p

(* the position after the submission returned r *)
AdvancedPos(e, p, r) ==
  IF ~e.streaming /\ ~e.non_incr_addr /\ r > 0 THEN p + r ELSE p

rw_pos(t) ==
  /\ At(t, "rw_pos")
  /\ pos' = Upd(pos, t, AdvancedPos(engine, pos[t], rv[t]))
  /\ pc' = Upd(pc, t, "rw_clear")
  /\ UNCHANGED <<engine, holder, nopen, op, path, rv, set, transfer_mode,
                 transfer_res, f_flags, user_perf, user_length, user_int>>

(* variant: a negative submission result is reported as a fault *)
rw_clear_hides_error(t) ==
  /\ At(t, "rw_clear")
  /\ ReleaseBusy(t)
  /\ rv' = Upd(rv, t, IF rv[t] < 0 THEN -EFAULT ELSE rv[t])
  /\ UNCHANGED <<nopen, op, path, pos, set, transfer_mode, transfer_res,
                 f_flags, user_perf, user_length, user_int>>

rw_clear(t) ==
  /\ At(t, "rw_clear")
  /\ ReleaseBusy(t)
  /\ UNCHANGED <<nopen, op, path, rv, pos, set, transfer_mode, transfer_res,
                 f_flags, user_perf, user_length, user_int>>

(* ---- ioctl_do_perf_test ------------------------------------------------ *)
(* configurations a caller hands in *)
UserPerfs == [transfer_size : {1}, result : {0}]
(* result field as the performance run may leave it *)
PerfResults == {0, 1}
(* return values of xdma2_performance_submit() *)
xdma2_performance_submit_results == SubmitErrors \cup {0}

pf_test_and_set(t) ==
  /\ CanCall(t)
  /\ op' = Upd(op, t, "perf_test")
  /\ AcquireBusy(t, "pf_copy_in")
  /\ UNCHANGED <<nopen, pos, set, transfer_mode, transfer_res, f_flags,
                 user_perf, user_length, user_int>>

pf_copy_in(t) ==
  /\ At(t, "pf_copy_in")
  /\ \E cfg \in UserPerfs, left \in 0..PerfSize :
       /\ user_perf' = Upd(user_perf, t, cfg)
       /\ engine' = [engine EXCEPT !.xdma2_perf = copy_from_user(cfg, left)]
       /\ rv' = Upd(rv, t, left)
       /\ path' = Upd(path, t, IF left > 0 THEN "fault_in" ELSE "copied_in")
       /\ pc' = Upd(pc, t, IF left < 0 THEN "pf_exit" ELSE "pf_submit")
  /\ UNCHANGED <<holder, nopen, op, pos, set, transfer_mode, transfer_res,
                 f_flags, user_length, user_int>>

pf_submit(t) ==
  /\ At(t, "pf_submit")
  /\ \E r \in xdma2_performance_submit_results, res \in PerfResults :
       /\ engine' = [engine EXCEPT !.xdma2_perf.result = res]
       /\ rv' = Upd(rv, t, r)
       /\ path' = Upd(path, t,
            IF path[t] = "fault_in" THEN "fault_in_submitted"
            ELSE IF r < 0 THEN "submit_failed" ELSE "submitted")
       /\ pc' = Upd(pc, t, IF r < 0 THEN "pf_exit" ELSE "pf_copy_out")
  /\ UNCHANGED <<holder, nopen, op, pos, set, transfer_mode, transfer_res,
                 f_flags, user_perf, user_length, user_int>>

(* variant: the result is reported as copied although nothing is copied *)
pf_copy_out_skipped(t) ==
  /\ At(t, "pf_copy_out")
  /\ rv' = Upd(rv, t, 0)
  /\ path' = Upd(path, t, "success")
  /\ pc' = Upd(pc, t, "pf_exit")
  /\ UNCHANGED <<engine, holder, nopen, op, pos, set, transfer_mode,
                 transfer_res, f_flags, user_perf, user_length, user_int>>

pf_copy_out(t) ==
  /\ At(t, "pf_copy_out")
  /\ \E left \in 0..PerfSize :
       /\ user_perf' = Upd(user_perf, t,
                           copy_to_user(user_perf[t], engine.xdma2_perf, left))
       /\ rv' = Upd(rv, t, left)
       /\ path' = Upd(path, t,
            IF path[t] = "fault_in_submitted" THEN path[t]
            ELSE IF left > 0 THEN "fault_out" ELSE "success")
  /\ pc' = Upd(pc, t, "pf_exit")
  /\ UNCHANGED <<engine, holder, nopen, op, pos, set, transfer_mode,
                 transfer_res, f_flags, user_length, user_int>>

pf_exit(t) ==
  /\ At(t, "pf_exit")
  /\ ReleaseBusy(t)
  /\ UNCHANGED <<nopen, op, path, rv, pos, set, transfer_mode, transfer_res,
                 f_flags, user_perf, user_length, user_int>>

(* ---- ioctl_do_addrmode_set / _get, ioctl_do_align_get ------------------ *)
(* ints a caller may have stored at arg *)
UserInts == 0..2

(* get_user() of the caller's int, then the test-and-set: the read        *)
(* touches no engine state, so the two are one step                        *)
as_test_and_set(t) ==
  /\ CanCall(t)
  /\ op' = Upd(op, t, "addrmode_set")
  /\ \E readable \in BOOLEAN, v \in UserInts :
       IF readable
       THEN /\ set' = Upd(set, t, v # 0)
            /\ AcquireBusy(t, "as_set")
       ELSE /\ rv' = Upd(rv, t, -EFAULT)
            /\ pc' = Upd(pc, t, "ret")
            /\ path' = Upd(path, t, "fault_in")
            /\ UNCHANGED <<engine, holder, set>>
  /\ UNCHANGED <<nopen, pos, transfer_mode, transfer_res, f_flags,
                 user_perf, user_length, user_int>>

(* variant: the mode is left as it is *)
as_set_keeps_mode(t) ==
  /\ At(t, "as_set")
  /\ pc' = Upd(pc, t, "as_clear")
  /\ UNCHANGED <<engine, holder, nopen, op, path, rv, pos, set, transfer_mode,
                 transfer_res, f_flags, user_perf, user_length, user_int>>

as_set(t) ==
  /\ At(t, "as_set")
  /\ engine' = engine_addrmode_set(engine, set[t])
  /\ pc' = Upd(pc, t, "as_clear")
  /\ UNCHANGED <<holder, nopen, op, path, rv, pos, set, transfer_mode,
                 transfer_res, f_flags, user_perf, user_length, user_int>>

as_clear(t) ==
  /\ At(t, "as_clear")
  /\ ReleaseBusy(t)
  /\ rv' = Upd(rv, t, 0)
  /\ path' = Upd(path, t, "success")
  /\ UNCHANGED <<nopen, op, pos, set, transfer_mode, transfer_res, f_flags,
                 user_perf, user_length, user_int>>

(* put_user(val) into the caller's int: 0, or -EFAULT and nothing stored *)
PutUser(t, writable, val) ==
  IF writable
  THEN /\ user_int' = Upd(user_int, t, val)
       /\ rv' = Upd(rv, t, 0)
       /\ path' = Upd(path, t, "success")
  ELSE /\ rv' = Upd(rv, t, -EFAULT)
       /\ path' = Upd(path, t, "fault_out")
       /\ UNCHANGED user_int

(* variant: the read of the mode is put under the busy bit *)
ioctl_do_addrmode_get_under_busy(t) ==
  /\ CanCall(t)
  /\ op' = Upd(op, t, "addrmode_get")
  /\ IF test_bit(XENGINE_BUSY_BIT, engine.flags)
     THEN /\ rv' = Upd(rv, t, -EBUSY)
          /\ path' = Upd(path, t, "busy")
          /\ UNCHANGED user_int
     ELSE PutUser(t, TRUE, IF engine.non_incr_addr THEN 1 ELSE 0)
  /\ pc' = Upd(pc, t, "ret")
  /\ UNCHANGED <<engine, holder, nopen, pos, set, transfer_mode, transfer_res,
                 f_flags, user_perf, user_length>>

ioctl_do_addrmode_get(t) ==
  /\ CanCall(t)
  /\ op' = Upd(op, t, "addrmode_get")
  /\ \E writable \in BOOLEAN :
       PutUser(t, writable, IF engine.non_incr_addr THEN 1 ELSE 0)
  /\ pc' = Upd(pc, t, "ret")
  /\ UNCHANGED <<engine, holder, nopen, pos, set, transfer_mode, transfer_res,
                 f_flags, user_perf, user_length>>

ioctl_do_align_get(t) ==
  /\ CanCall(t)
  /\ op' = Upd(op, t, "align_get")
  /\ \E writable \in BOOLEAN : PutUser(t, writable, engine.addr_align)
  /\ pc' = Upd(pc, t, "ret")
  /\ UNCHANGED <<engine, holder, nopen, pos, set, transfer_mode, transfer_res,
                 f_flags, user_perf, user_length>>

(* variant: the default branch resets the engine's busy bit *)
ioctl_default_resets_busy(t) ==
  /\ CanCall(t)
  /\ op' = Upd(op, t, "unknown")
  /\ rv' = Upd(rv, t, -ENOTTY)
  /\ path' = Upd(path, t, "unknown")
  /\ pc' = Upd(pc, t, "ret")
  /\ engine' = [engine EXCEPT !.flags = clear_bit(XENGINE_BUSY_BIT, @)]
  /\ UNCHANGED <<holder, nopen, pos, set, transfer_mode, transfer_res,
                 f_flags, user_perf, user_length, user_int>>

(* default: branch of the switch in char_sgdma_ioctl *)
ioctl_default(t) ==
  /\ CanCall(t)
  /\ op' = Upd(op, t, "unknown")
  /\ rv' = Upd(rv, t, -ENOTTY)
  /\ path' = Upd(path, t, "unknown")
  /\ pc' = Upd(pc, t, "ret")
  /\ UNCHANGED <<engine, holder, nopen, pos, set, transfer_mode, transfer_res,
                 f_flags, user_perf, user_length, user_int>>

(* ---- ioctl_do_submit_transfer ------------------------------------------ *)
(* sizeof(struct xdma2_transfer_request), in units of the address model *)
RequestSize == 1

(* variant: only the two known modes are compared with the direction *)
ModeMatchesKnownOnly(e, m) ==
  /\ ~(m = XDMA_H2C /\ e.dir # DMA_TO_DEVICE)
  /\ ~(m = XDMA_C2H /\ e.dir # DMA_FROM_DEVICE)

(* the mode check of the request against the engine's direction *)
ModeMatches(e, m) ==
  \/ m = XDMA_H2C /\ e.dir = DMA_TO_DEVICE
  \/ m = XDMA_C2H /\ e.dir = DMA_FROM_DEVICE

(* the checks of the request, then the test-and-set: the checks read     *)
(* the request and the engine's fixed direction only, so all is one step   *)
st_test_and_set(t) ==
  /\ CanCall(t)
  /\ op' = Upd(op, t, "submit_transfer")
  /\ \E arg \in Pointers, readable \in BOOLEAN, m \in TransferModes :
       IF access_assert(arg, RequestSize) < 0
       THEN /\ rv' = Upd(rv, t, access_assert(arg, RequestSize))
            /\ pc' = Upd(pc, t, "ret")
            /\ path' = Upd(path, t, "fault_request")
            /\ UNCHANGED <<engine, holder, transfer_mode>>
       ELSE IF ~readable
       THEN /\ rv' = Upd(rv, t, -EFAULT)
            /\ pc' = Upd(pc, t, "ret")
            /\ path' = Upd(path, t, "fault_request")
            /\ UNCHANGED <<engine, holder, transfer_mode>>
       ELSE IF ~ModeMatches(engine, m)
       THEN /\ transfer_mode' = Upd(transfer_mode, t, m)
            /\ rv' = Upd(rv, t, -ENOTSUPP)
            /\ pc' = Upd(pc, t, "ret")
            /\ path' = Upd(path, t, "unsupported")
            /\ UNCHANGED <<engine, holder>>
       ELSE /\ transfer_mode' = Upd(transfer_mode, t, m)
            /\ AcquireBusy(t, "st_get_buf")
  /\ UNCHANGED <<nopen, pos, set, transfer_res, f_flags, user_perf,
                 user_length, user_int>>

(* __get_user() into a field of transfer_params: the value read, or zero  *)
(* stored and -EFAULT when the read faults.                                *)
st_get_buf(t) ==
  /\ At(t, "st_get_buf")
  /\ \E readable \in BOOLEAN, b \in Pointers :
       IF readable
       THEN /\ engine' = [engine EXCEPT !.transfer_params.buf = b]
            /\ pc' = Upd(pc, t, "st_get_length")
            /\ UNCHANGED <<rv, path>>
       ELSE /\ engine' = [engine EXCEPT !.transfer_params.buf = NULL]
            /\ rv' = Upd(rv, t, -EFAULT)
            /\ pc' = Upd(pc, t, "st_exit")
            /\ path' = Upd(path, t, "fault_field")
  /\ UNCHANGED <<holder, nopen, op, pos, set, transfer_mode, transfer_res,
                 f_flags, user_perf, user_length, user_int>>

st_get_length(t) ==
  /\ At(t, "st_get_length")
  /\ \E readable \in BOOLEAN, l \in 0..MaxLen :
       IF readable
       THEN /\ engine' = [engine EXCEPT !.transfer_params.length = l]
            /\ user_length' = Upd(user_length, t, l)
            /\ pc' = Upd(pc, t, "st_access")
            /\ UNCHANGED <<rv, path>>
       ELSE /\ engine' = [engine EXCEPT !.transfer_params.length = 0]
            /\ rv' = Upd(rv, t, -EFAULT)
            /\ pc' = Upd(pc, t, "st_exit")
            /\ path' = Upd(path, t, "fault_field")
            /\ UNCHANGED user_length
  /\ UNCHANGED <<holder, nopen, op, pos, set, transfer_mode, transfer_res,
                 f_flags, user_perf, user_int>>

(* variant: the region fault returns at once, without the exit label *)
st_access_returns_directly(t) ==
  /\ At(t, "st_access")
  /\ LET r == access_assert(engine.transfer_params.buf,
                            engine.transfer_params.length)
     IN  IF r < 0
         THEN /\ engine' = [engine EXCEPT !.transfer_params.buf = NULL,
                                          !.transfer_params.length = 0]
              /\ rv' = Upd(rv, t, r)
              /\ pc' = Upd(pc, t, "ret")
              /\ path' = Upd(path, t, "fault_region")
         ELSE /\ rv' = Upd(rv, t, r)
              /\ pc' = Upd(pc, t, IF ~engine.streaming THEN "st_get_addr"
                                                       ELSE "st_submit")
              /\ UNCHANGED <<engine, path>>
  /\ UNCHANGED <<holder, nopen, op, pos, set, transfer_mode, transfer_res,
                 f_flags, user_perf, user_length, user_int>>

(* variant: the staged parameters are not cleared on the region fault *)
st_access_keeps_params(t) ==
  /\ At(t, "st_access")
  /\ LET r == access_assert(engine.transfer_params.buf,
                            engine.transfer_params.length)
     IN  /\ rv' = Upd(rv, t, r)
         /\ pc' = Upd(pc, t, IF r < 0 THEN "st_exit"
                             ELSE IF ~engine.streaming THEN "st_get_addr"
                             ELSE "st_submit")
         /\ path' = Upd(path, t, IF r < 0 THEN "fault_region" ELSE path[t])
  /\ UNCHANGED <<engine, holder, nopen, op, pos, set, transfer_mode,
                 transfer_res, f_flags, user_perf, user_length, user_int>>

st_access(t) ==
  /\ At(t, "st_access")
  /\ LET r == access_assert(engine.transfer_params.buf,
                            engine.transfer_params.length)
     IN  IF r < 0
         THEN /\ engine' = [engine EXCEPT !.transfer_params.buf = NULL,
                                          !.transfer_params.length = 0]
              /\ rv' = Upd(rv, t, r)
              /\ pc' = Upd(pc, t, "st_exit")
              /\ path' = Upd(path, t, "fault_region")
         ELSE /\ rv' = Upd(rv, t, r)
              /\ pc' = Upd(pc, t, IF ~engine.streaming THEN "st_get_addr"
                                                       ELSE "st_submit")
              /\ UNCHANGED <<engine, path>>
  /\ UNCHANGED <<holder, nopen, op, pos, set, transfer_mode, transfer_res,
                 f_flags, user_perf, user_length, user_int>>

st_get_addr(t) ==
  /\ At(t, "st_get_addr")
  /\ \E readable \in BOOLEAN, a \in 0..MaxPos :
       IF readable
       THEN /\ engine' = [engine EXCEPT !.transfer_params.ep_addr = a]
            /\ pc' = Upd(pc, t, "st_submit")
            /\ UNCHANGED <<rv, path>>
       ELSE /\ engine' = [engine EXCEPT !.transfer_params.ep_addr = 0]
            /\ rv' = Upd(rv, t, -EFAULT)
            /\ pc' = Upd(pc, t, "st_exit")
            /\ path' = Upd(path, t, "fault_field")
  /\ UNCHANGED <<holder, nopen, op, pos, set, transfer_mode, transfer_res,
                 f_flags, user_perf, user_length, user_int>>

st_submit(t) ==
  /\ At(t, "st_submit")
  /\ \E r \in xdma2_xfer_submit_results(engine) :
       /\ transfer_res' = Upd(transfer_res, t, r)
       /\ path' = Upd(path, t, IF r < 0 THEN "submit_failed" ELSE "submitted")
  /\ pc' = Upd(pc, t, "st_put_length")
  /\ UNCHANGED <<engine, holder, nopen, op, rv, pos, set, transfer_mode,
                 f_flags, user_perf, user_length, user_int>>

st_put_length(t) ==
  /\ At(t, "st_put_length")
  /\ \E writable \in BOOLEAN :
       IF writable
       THEN /\ user_length' = Upd(user_length, t,
                 IF transfer_res[t] < 0 THEN 0 ELSE transfer_res[t])
            /\ rv' = Upd(rv, t, IF transfer_res[t] < 0 THEN transfer_res[t] ELSE 0)
            /\ path' = Upd(path, t,
                 IF transfer_res[t] < 0 THEN "submit_failed" ELSE "success")
       ELSE /\ rv' = Upd(rv, t, -EFAULT)
            /\ path' = Upd(path, t, "fault_out")
            /\ UNCHANGED user_length
  /\ pc' = Upd(pc, t, "st_exit")
  /\ UNCHANGED <<engine, holder, nopen, op, pos, set, transfer_mode,
                 transfer_res, f_flags, user_perf, user_int>>

st_exit(t) ==
  /\ At(t, "st_exit")
  /\ ReleaseBusy(t)
  /\ UNCHANGED <<nopen, op, path, rv, pos, set, transfer_mode, transfer_res,
                 f_flags, user_perf, user_length, user_int>>

(* ---- the call returns to its caller ----------------------------------- *)
Return(t) ==
  /\ pc[t] = "ret"
  /\ pc' = Upd(pc, t, "idle")
  /\ op' = Upd(op, t, "none")
  /\ path' = Upd(path, t, "none")
  /\ rv' = Upd(rv, t, 0)
  /\ pos' = Upd(pos, t, 0)
  /\ set' = Upd(set, t, FALSE)
  /\ transfer_mode' = Upd(transfer_mode, t, "none")
  /\ transfer_res' = Upd(transfer_res, t, 0)
  /\ f_flags' = Upd(f_flags, t, NoFlags)
  /\ user_perf' = Upd(user_perf, t, NoPerf)
  /\ user_length' = Upd(user_length, t, 0)
  /\ user_int' = Upd(user_int, t, 0)
  /\ UNCHANGED <<engine, holder, nopen>>

(* ---- char_sgdma_open / char_sgdma_close -------------------------------- *)
(* generic_file_open() on a character device node (i_size is 0) *)
generic_file_open_results == {0}

(* variant: the open bit is set without looking at its old value *)
op_set_without_test(t) ==
  /\ Outside(t)
  /\ op' = Upd(op, t, "open")
  /\ engine' = [engine EXCEPT !.flags = set_bit(XENGINE_OPEN_BIT, @)]
  /\ pc' = Upd(pc, t, "op_mode")
  /\ path' = Upd(path, t, "acquired")
  /\ UNCHANGED <<holder, nopen, rv, pos, set, transfer_mode, transfer_res,
                 f_flags, user_perf, user_length, user_int>>

op_test_and_set(t) ==
  /\ Outside(t)
  /\ op' = Upd(op, t, "open")
  /\ IF test_bit(XENGINE_OPEN_BIT, engine.flags)
     THEN /\ rv' = Upd(rv, t, -EBUSY)
          /\ pc' = Upd(pc, t, "ret")
          /\ path' = Upd(path, t, "busy")
          /\ UNCHANGED engine
     ELSE /\ engine' = [engine EXCEPT !.flags = set_bit(XENGINE_OPEN_BIT, @)]
          /\ pc' = Upd(pc, t, "op_mode")
          /\ path' = Upd(path, t, "acquired")
          /\ UNCHANGED rv
  /\ UNCHANGED <<holder, nopen, pos, set, transfer_mode, transfer_res, f_flags,
                 user_perf, user_length, user_int>>

(* variant: the two directions are exchanged *)
RequiredAccModeSwapped(e) == IF e.dir = DMA_TO_DEVICE THEN O_RDONLY ELSE O_WRONLY

(* the access mode the engine's direction requires *)
RequiredAccMode(e) == IF e.dir = DMA_TO_DEVICE THEN O_WRONLY ELSE O_RDONLY

op_mode(t) ==
  /\ At(t, "op_mode")
  /\ \E acc \in AccModes, trunc \in BOOLEAN, g \in generic_file_open_results :
       /\ f_flags' = Upd(f_flags, t, [acc |-> acc, trunc |-> trunc])
       /\ IF acc # RequiredAccMode(engine)
          THEN /\ rv' = Upd(rv, t, -EACCES)
               /\ path' = Upd(path, t, "denied")
               /\ UNCHANGED engine
          ELSE IF engine.streaming
          THEN /\ engine' = [engine EXCEPT !.eop_flush = trunc]
               /\ path' = Upd(path, t, "success")
               /\ UNCHANGED rv
          ELSE IF g < 0
          THEN /\ rv' = Upd(rv, t, g)
               /\ path' = Upd(path, t, "denied")
               /\ UNCHANGED engine
          ELSE /\ engine' = engine_addrmode_set(engine, trunc)
               /\ rv' = Upd(rv, t, g)
               /\ path' = Upd(path, t, "success")
  /\ pc' = Upd(pc, t, "op_not_open")
  /\ UNCHANGED <<holder, nopen, op, pos, set, transfer_mode, transfer_res,
                 user_perf, user_length, user_int>>

op_not_open(t) ==
  /\ At(t, "op_not_open")
  /\ IF rv[t] < 0
     THEN /\ engine' = [engine EXCEPT !.flags = clear_bit(XENGINE_OPEN_BIT, @)]
          /\ UNCHANGED nopen
     ELSE /\ nopen' = nopen + 1
          /\ UNCHANGED engine
  /\ pc' = Upd(pc, t, "ret")
  /\ UNCHANGED <<holder, op, path, rv, pos, set, transfer_mode, transfer_res,
                 f_flags, user_perf, user_length, user_int>>

(* variant: release runs while a call on the file is still in flight *)
char_sgdma_close_during_call(t) ==
  /\ Outside(t)
  /\ nopen > 0
  /\ engine' = [engine EXCEPT !.flags = clear_bit(XENGINE_OPEN_BIT, @)]
  /\ nopen' = nopen - 1
  /\ op' = Upd(op, t, "close")
  /\ path' = Upd(path, t, "success")
  /\ rv' = Upd(rv, t, 0)
  /\ pc' = Upd(pc, t, "ret")
  /\ UNCHANGED <<holder, pos, set, transfer_mode, transfer_res, f_flags,
                 user_perf, user_length, user_int>>

(* char_sgdma_close is the .release entry of sgdma_fops: it runs once per  *)
(* successful open, when the last reference to the file is dropped, and a  *)
(* read, write or ioctl in flight holds a reference to its file.           *)
char_sgdma_close(t) ==
  /\ Outside(t)
  /\ nopen > 0
  /\ \A u \in Callers : ~InFileCall(u)
  /\ engine' = [engine EXCEPT !.flags = clear_bit(XENGINE_OPEN_BIT, @)]
  /\ nopen' = nopen - 1
  /\ op' = Upd(op, t, "close")
  /\ path' = Upd(path, t, "success")
  /\ rv' = Upd(rv, t, 0)
  /\ pc' = Upd(pc, t, "ret")
  /\ UNCHANGED <<holder, pos, set, transfer_mode, transfer_res, f_flags,
                 user_perf, user_length, user_int>>

Next ==
  \E t \in Callers :
    \/ rw_test_and_set(t)
    \/ rw_stage(t)
    \/ rw_submit(t)
    \/ rw_pos(t)
    \/ rw_clear(t)
    \/ pf_test_and_set(t)
    \/ pf_copy_in(t)
    \/ pf_submit(t)
    \/ pf_copy_out(t)
    \/ pf_exit(t)
    \/ st_test_and_set(t)
    \/ st_get_buf(t)
    \/ st_get_length(t)
    \/ st_access(t)
    \/ st_get_addr(t)
    \/ st_submit(t)
    \/ st_put_length(t)
    \/ st_exit(t)
    \/ as_test_and_set(t)
    \/ as_set(t)
    \/ as_clear(t)
    \/ ioctl_do_addrmode_get(t)
    \/ ioctl_do_align_get(t)
    \/ ioctl_default(t)
    \/ op_test_and_set(t)
    \/ op_mode(t)
    \/ op_not_open(t)
    \/ char_sgdma_close(t)
    \/ Return(t)

Spec == Init /\ [][Next]_vars

(* The steps of a call that is inside a handler.  A thread inside a       *)
(* handler keeps being scheduled and the external submission routines      *)
(* return, so a call in flight is not left behind forever; strong          *)
(* fairness, because a step is disabled for the moment in which another    *)
(* caller's return is delivered.  No call has to be started.               *)
Continue(t) ==
  \/ rw_stage(t) \/ rw_submit(t) \/ rw_pos(t) \/ rw_clear(t)
  \/ pf_copy_in(t) \/ pf_submit(t) \/ pf_copy_out(t) \/ pf_exit(t)
  \/ st_get_buf(t) \/ st_get_length(t) \/ st_access(t) \/ st_get_addr(t)
  \/ st_submit(t) \/ st_put_length(t) \/ st_exit(t)
  \/ as_set(t) \/ as_clear(t)
  \/ op_mode(t) \/ op_not_open(t)
  \/ Return(t)

FairSpec == Spec /\ \A t \in Callers : SF_vars(Continue(t))

(* ======================================================================= *)
(* Properties                                                              *)
(* ======================================================================= *)
CriticalPcs ==
  {"rw_stage", "rw_submit", "rw_pos", "rw_clear",
   "pf_copy_in", "pf_submit", "pf_copy_out", "pf_exit",
   "as_set", "as_clear",
   "st_get_buf", "st_get_length", "st_access", "st_get_addr", "st_submit",
   "st_put_length", "st_exit"}
InCritical(t) == pc[t] \in CriticalPcs
TransferOps == {"read_write", "submit_transfer"}

(* t performs its test-and-set of the busy bit in this step *)
BusyTasStep(t) ==
  /\ pc[t] = "idle" /\ pc'[t] # "idle"
  /\ op'[t] # "open" /\ path'[t] \in {"busy", "acquired"}
(* the handler of t executes its return statement in this step *)
Completes(t) == pc[t] # "ret" /\ pc'[t] = "ret"

(* C1: at every instant at most one call is between its successful        *)
(* test-and-set of the busy bit and its clear of that bit, and the bit is  *)
(* set exactly while such a call exists.                                   *)
C1_MutualExclusion ==
  /\ Cardinality({t \in Callers : InCritical(t)}) <= 1
  /\ \A t \in Callers : InCritical(t) <=> holder = t
  /\ Busy <=> holder # NoCaller

(* one caller is inside its critical section while another one was turned *)
(* away at the busy bit                                                    *)
C1_Witness ==
  \E t, u \in Callers :
    /\ t # u /\ InCritical(t) /\ Busy
    /\ pc[u] = "ret" /\ path[u] = "busy" /\ op[u] \in FileOps

(* C2: a read/write or SubmitTransfer call that does its test-and-set     *)
(* while another such call holds busy leaves in that very step with       *)
(* -EBUSY, the holder stays the holder, and the loser never reaches the   *)
(* submission gate.                                                        *)
C2_LoserBusyAtOnce ==
  [][\A u \in Callers :
       /\ ( /\ BusyTasStep(u) /\ op'[u] \in TransferOps
            /\ holder # NoCaller /\ op[holder] \in TransferOps )
          => /\ pc'[u] = "ret" /\ rv'[u] = -EBUSY
             /\ holder' = holder /\ InCritical(holder)'
             /\ engine' = engine
       /\ (pc[u] = "ret" /\ rv[u] = -EBUSY /\ op[u] \in TransferOps)
          => (pc'[u] \in {"ret", "idle"} /\ (pc'[u] = "ret" => rv'[u] = rv[u]))
    ]_vars

C2_Witness ==
  \E t, u \in Callers :
    /\ t # u /\ holder = t /\ op[t] = "submit_transfer" /\ pc[t] = "st_submit"
    /\ op[u] = "read_write" /\ pc[u] = "ret" /\ rv[u] = -EBUSY

(* C3: no call returns while it is still the holder of busy, whatever exit *)
(* path it took.                                                           *)
C3_NoLeakedBusy ==
  \A t \in Callers : pc[t] \in {"ret", "idle"} => holder # t

(* a call that acquired busy has returned on an error path, after a      *)
(* copy-out fault, and busy is clear                                       *)
C3_Witness ==
  \E t \in Callers :
    /\ pc[t] = "ret" /\ op[t] = "perf_test" /\ path[t] = "fault_out"
    /\ rv[t] > 0 /\ ~Busy

(* C4 as stated: busy is false right before an operation starts and right *)
(* after it completes, for every operation and interleaving.              *)
C4_Original ==
  [][\A t \in Callers :
       /\ (pc[t] = "idle" /\ pc'[t] # "idle") => ~Busy
       /\ Completes(t) => ~Busy'
    ]_vars

(* C4 amended: a call that acquired busy leaves it clear in the step that *)
(* completes it, every other completing call leaves the bit as it is, and *)
(* busy is clear whenever no call on the engine is in flight.             *)
Quiescent == \A t \in Callers : pc[t] \in {"idle", "ret"}
C4_BusyClearWhenDone ==
  [][/\ \A t \in Callers :
          Completes(t) => IF holder = t THEN ~Busy' /\ holder' = NoCaller
                          ELSE Busy' = Busy /\ holder' = holder
     /\ Quiescent' => ~Busy'
    ]_vars

C4_Witness ==
  \E t, u \in Callers :
    /\ t # u /\ Busy /\ holder = t
    /\ pc[u] = "ret" /\ rv[u] = -EBUSY /\ op[u] = "perf_test"

(* t performs the test-and-set of the open bit in this step *)
OpenTasStep(t) == pc[t] = "idle" /\ op'[t] = "open"
CloseStep(t) == pc[t] = "idle" /\ op'[t] = "close"

(* C5: at most one successful, not yet closed open exists; an open         *)
(* attempted while it exists fails with -EBUSY and leaves the open bit     *)
(* set; close clears the bit, and an open that then finds the bit clear    *)
(* and has the access mode of the engine's direction succeeds.             *)
C5_OneHandle ==
  [][/\ nopen' <= 1
     /\ \A t \in Callers :
          /\ (OpenTasStep(t) /\ nopen = 1)
             => (pc'[t] = "ret" /\ rv'[t] = -EBUSY /\ Open' /\ nopen' = 1)
          /\ CloseStep(t) => (~Open' /\ nopen' = nopen - 1)
          /\ (OpenTasStep(t) /\ ~Open) => (pc'[t] = "op_mode" /\ Open')
          /\ ( /\ pc[t] = "op_mode" /\ pc'[t] # "op_mode"
               /\ (engine.dir = DMA_TO_DEVICE => f_flags'[t].acc = O_WRONLY)
               /\ (engine.dir = DMA_FROM_DEVICE => f_flags'[t].acc = O_RDONLY) )
             => rv'[t] = 0
          /\ (pc[t] = "op_not_open" /\ pc'[t] = "ret" /\ rv[t] = 0)
             => (nopen = 0 /\ nopen' = 1 /\ Open' /\ rv'[t] = 0)
    ]_vars

(* an open was turned away while a handle exists *)
C5_Witness ==
  \E t \in Callers :
    /\ nopen = 1 /\ Open
    /\ op[t] = "open" /\ pc[t] = "ret" /\ rv[t] = -EBUSY

(* C6: an open that found the open bit clear succeeds only with O_WRONLY  *)
(* on a DMA_TO_DEVICE engine or O_RDONLY on a DMA_FROM_DEVICE engine; any  *)
(* other access mode ends in -EACCES with the open bit clear again, and    *)
(* from the mode check to the clearing of the bit non_incr_addr and        *)
(* eop_flush keep their values.                                            *)
WrongAccMode(t) ==
  /\ f_flags[t].acc \in AccModes
  /\ \/ engine.dir = DMA_TO_DEVICE /\ f_flags[t].acc # O_WRONLY
     \/ engine.dir = DMA_FROM_DEVICE /\ f_flags[t].acc # O_RDONLY
C6_DirectionCorrectOpen ==
  [][\A t \in Callers :
       /\ (pc[t] = "op_mode" /\ pc'[t] # "op_mode" /\ WrongAccMode(t)')
          => /\ rv'[t] = -EACCES
             /\ engine'.non_incr_addr = engine.non_incr_addr
             /\ engine'.eop_flush = engine.eop_flush
       /\ (pc[t] = "op_not_open" /\ WrongAccMode(t))
          => /\ engine'.non_incr_addr = engine.non_incr_addr
             /\ engine'.eop_flush = engine.eop_flush
             /\ (pc[t] = "op_not_open" /\ pc'[t] = "ret")
                => (~Open' /\ rv'[t] = -EACCES /\ nopen' = nopen)
       /\ (op'[t] = "open" /\ pc'[t] = "ret" /\ rv'[t] = 0)
          => (f_flags'[t].acc \in AccModes /\ ~WrongAccMode(t)')
    ]_vars

(* a read-write open of a non-open engine was denied and the bit is clear *)
C6_Witness ==
  \E t \in Callers :
    /\ op[t] = "open" /\ pc[t] = "ret" /\ rv[t] = -EACCES
    /\ f_flags[t].acc = O_RDWR /\ f_flags[t].trunc
    /\ ~Open /\ nopen = 0

(* C7: a SubmitTransfer whose request mode is not the one of the engine's *)
(* direction ends in -ENOTSUPP in the step that reads the mode, changes    *)
(* nothing in the engine, and never is the holder of busy - also while     *)
(* another caller holds busy.                                              *)
ModeMismatch(t) ==
  /\ op[t] = "submit_transfer"
  /\ transfer_mode[t] # "none"
  /\ ~(transfer_mode[t] = XDMA_H2C /\ engine.dir = DMA_TO_DEVICE)
  /\ ~(transfer_mode[t] = XDMA_C2H /\ engine.dir = DMA_FROM_DEVICE)
C7_MismatchUnsupported ==
  [][\A t \in Callers :
       ModeMismatch(t)'
         => /\ pc'[t] = "ret" /\ rv'[t] = -ENOTSUPP
            /\ holder' # t
            /\ (pc[t] = "idle" => (engine' = engine /\ holder' = holder))
    ]_vars

(* the mismatched request was rejected while another caller holds busy *)
C7_Witness ==
  \E t, u \in Callers :
    /\ t # u /\ holder = u /\ Busy /\ pc[u] = "rw_submit"
    /\ ModeMismatch(t) /\ transfer_mode[t] = "XDMA_OTHER"
    /\ pc[t] = "ret" /\ rv[t] = -ENOTSUPP

(* C8: the step after the submission adds the returned count to the       *)
(* position when the count is positive and the engine is neither          *)
(* streaming nor in non-incrementing mode, and leaves the position alone   *)
(* otherwise; no other step of the call moves it, so that on a             *)
(* non-streaming engine the position at the return is the staged device    *)
(* address plus the count added.                                           *)
Advances(t) ==
  rv[t] > 0 /\ ~engine.streaming /\ ~engine.non_incr_addr
C8_PositionCursor ==
  [][\A t \in Callers :
       /\ (pc[t] = "rw_pos" /\ pc'[t] # "rw_pos")
          => pos'[t] = IF Advances(t) THEN pos[t] + rv[t] ELSE pos[t]
       /\ (pc[t] \in {"rw_submit", "rw_clear"} /\ pc'[t] # pc[t])
          => pos'[t] = pos[t]
       /\ (pc[t] = "rw_clear" /\ pc'[t] = "ret" /\ ~engine.streaming)
          => pos'[t] = engine.transfer_params.ep_addr
                         + (IF Advances(t)' THEN rv'[t] ELSE 0)
    ]_vars

(* a write at position MaxPos returned a positive count and moved on *)
C8_Witness ==
  \E t \in Callers :
    /\ op[t] = "read_write" /\ pc[t] = "ret"
    /\ rv[t] > 0 /\ ~engine.streaming /\ ~engine.non_incr_addr
    /\ engine.transfer_params.ep_addr = MaxPos
    /\ pos[t] = MaxPos + rv[t]

(* C9: when the buffer/length region read from a readable request is not   *)
(* accessible, the call leaves with -EFAULT without running the            *)
(* submission, and at its return transfer_params has buf NULL and length   *)
(* zero and busy is clear.                                                 *)
C9_RegionFault ==
  [][\A t \in Callers :
       /\ ( /\ pc[t] = "st_access" /\ pc'[t] # "st_access"
            /\ engine.transfer_params.buf + engine.transfer_params.length
                 > TaskSize )
          => /\ pc'[t] = "st_exit" /\ rv'[t] = -EFAULT
             /\ path'[t] = "fault_region"
       /\ (pc[t] = "st_exit" /\ pc'[t] = "ret" /\ path[t] = "fault_region")
          => /\ rv'[t] = -EFAULT
             /\ engine'.transfer_params.buf = NULL
             /\ engine'.transfer_params.length = 0
             /\ ~Busy' /\ holder' = NoCaller
             /\ transfer_res'[t] = 0
    ]_vars

(* the call returned after a region fault; the request carried a length   *)
C9_Witness ==
  \E t \in Callers :
    /\ op[t] = "submit_transfer" /\ pc[t] = "ret" /\ path[t] = "fault_region"
    /\ rv[t] = -EFAULT /\ user_length[t] > 0
    /\ engine.transfer_params.buf = NULL /\ engine.transfer_params.length = 0
    /\ ~Busy

(* C10: a RunPerformanceTest that acquired busy, whose configuration was   *)
(* copied in and out completely and whose performance run reported no      *)
(* error returns 0 with the caller's configuration equal to               *)
(* engine->xdma2_perf as the run left it, and busy is clear at the return. *)
C10_PerfReadBack ==
  [][\A t \in Callers :
       /\ (pc[t] \in {"pf_copy_out", "pf_exit"})
          => engine'.xdma2_perf = engine.xdma2_perf
       /\ (pc[t] = "pf_exit" /\ pc'[t] = "ret" /\ rv[t] = 0)
          => /\ rv'[t] = 0
             /\ user_perf'[t] = engine.xdma2_perf
             /\ ~Busy' /\ holder' = NoCaller
    ]_vars

(* the caller got back a result field the run has written *)
C10_Witness ==
  \E t \in Callers :
    /\ op[t] = "perf_test" /\ pc[t] = "ret" /\ path[t] = "success"
    /\ rv[t] = 0 /\ user_perf[t].result > 0
    /\ user_perf[t] = engine.xdma2_perf /\ ~Busy

(* t enters operation o in this step *)
Starts(t, o) == pc[t] = "idle" /\ op'[t] = o

(* C11: a command code outside the five known ones ends at once in         *)
(* -ENOTTY, which is neither -ENOTSUPP nor -EBUSY, and leaves the whole    *)
(* engine (busy, open, transfer_params, non_incr_addr) and the holder of   *)
(* busy as they were, whatever state the engine is in.                     *)
C11_UnknownCommand ==
  [][\A t \in Callers :
       Starts(t, "unknown")
         => /\ pc'[t] = "ret" /\ rv'[t] = -ENOTTY
            /\ rv'[t] \notin {-ENOTSUPP, -EBUSY, 0}
            /\ Busy' = Busy /\ Open' = Open
            /\ engine'.transfer_params = engine.transfer_params
            /\ engine'.non_incr_addr = engine.non_incr_addr
            /\ engine' = engine /\ holder' = holder /\ nopen' = nopen
    ]_vars

(* the unknown command was rejected in the middle of another caller's     *)
(* transfer, with parameters staged                                        *)
C11_Witness ==
  \E t, u \in Callers :
    /\ t # u /\ op[t] = "unknown" /\ pc[t] = "ret" /\ rv[t] = -ENOTTY
    /\ holder = u /\ Busy /\ Open /\ pc[u] = "st_submit"
    /\ engine.transfer_params.buf # NULL

(* C12: GetAddressMode and GetAlignment end in the step that starts them,  *)
(* leave the engine and the holder of busy untouched, never give -EBUSY,   *)
(* and when the caller's int is writable return 0 with non_incr_addr       *)
(* (as 0 or 1) resp. addr_align stored in it - also while busy is held.    *)
C12_GettersReadOnly ==
  [][\A t \in Callers :
       /\ (Starts(t, "addrmode_get") \/ Starts(t, "align_get"))
          => /\ pc'[t] = "ret" /\ rv'[t] \in {0, -EFAULT}
             /\ engine' = engine /\ holder' = holder /\ nopen' = nopen
             /\ (rv'[t] = -EFAULT <=> path'[t] = "fault_out")
       /\ (Starts(t, "addrmode_get") /\ rv'[t] = 0)
          => user_int'[t] = (IF engine.non_incr_addr THEN 1 ELSE 0)
       /\ (Starts(t, "align_get") /\ rv'[t] = 0)
          => user_int'[t] = engine.addr_align
    ]_vars

(* the mode was read as set while another caller holds busy *)
C12_Witness ==
  \E t, u \in Callers :
    /\ t # u /\ holder = u /\ Busy
    /\ op[t] = "addrmode_get" /\ pc[t] = "ret" /\ rv[t] = 0
    /\ engine.non_incr_addr /\ user_int[t] = 1

(* C13: from the step after xdma2_xfer_submit to the return, a read/write  *)
(* call keeps the value the submission gave; the return clears busy, for   *)
(* a count as for a negative error.                                        *)
C13_SubmitResultVerbatim ==
  [][\A t \in Callers :
       /\ (pc[t] = "rw_submit" /\ pc'[t] # "rw_submit")
          => /\ rv'[t] \in SubmitErrors \cup (0..engine.transfer_params.length)
             /\ (rv'[t] < 0 <=> path'[t] = "submit_failed")
       /\ (pc[t] \in {"rw_pos", "rw_clear"} /\ pc'[t] # pc[t])
          => (rv'[t] = rv[t] /\ path'[t] = path[t])
       /\ (pc[t] = "rw_clear" /\ pc'[t] # "rw_clear")
          => (pc'[t] = "ret" /\ ~Busy' /\ holder' = NoCaller)
    ]_vars

(* a read/write call returned the submission's negative error *)
C13_Witness ==
  \E t \in Callers :
    /\ op[t] = "read_write" /\ pc[t] = "ret" /\ path[t] = "submit_failed"
    /\ rv[t] \in SubmitErrors /\ ~Busy /\ holder = NoCaller

(* C14 as stated: SetAddressMode tests busy before it reads the caller's  *)
(* boolean, so with busy held it gives -EBUSY whether or not the boolean   *)
(* is readable, and a fault reading the boolean ends with busy clear.      *)
C14_Original ==
  [][\A t \in Callers :
       /\ (Starts(t, "addrmode_set") /\ Busy) => rv'[t] = -EBUSY
       /\ (Starts(t, "addrmode_set") /\ path'[t] = "fault_in") => ~Busy'
    ]_vars

(* C14 amended: SetAddressMode reads the caller's boolean first.  A fault  *)
(* reading it gives -EFAULT whether or not busy is held and changes        *)
(* nothing; a readable boolean with busy held gives -EBUSY and changes     *)
(* nothing; otherwise the call takes busy, assigns the boolean to          *)
(* non_incr_addr and returns 0 with busy clear.                            *)
C14_SetAddressMode ==
  [][\A t \in Callers :
       /\ Starts(t, "addrmode_set")
          => /\ engine'.non_incr_addr = engine.non_incr_addr
             /\ path'[t] = "fault_in"
                  => /\ pc'[t] = "ret" /\ rv'[t] = -EFAULT
                     /\ engine' = engine /\ holder' = holder
             /\ (path'[t] # "fault_in" /\ Busy)
                  => /\ pc'[t] = "ret" /\ rv'[t] = -EBUSY
                     /\ engine' = engine /\ holder' = holder
             /\ (path'[t] # "fault_in" /\ ~Busy)
                  => (pc'[t] = "as_set" /\ Busy' /\ holder' = t)
       /\ (pc[t] = "as_set" /\ pc'[t] # "as_set")
          => (engine'.non_incr_addr = set[t] /\ set'[t] = set[t] /\ Busy')
       /\ (pc[t] = "as_clear" /\ pc'[t] # "as_clear")
          => /\ pc'[t] = "ret" /\ rv'[t] = 0
             /\ engine'.non_incr_addr = set[t]
             /\ ~Busy' /\ holder' = NoCaller
    ]_vars

(* the fault was reported although another caller holds busy *)
C14_Witness ==
  \E t, u \in Callers :
    /\ t # u /\ holder = u /\ Busy
    /\ op[t] = "addrmode_set" /\ pc[t] = "ret" /\ path[t] = "fault_in"
    /\ rv[t] = -EFAULT

(* C15: the mode-check step of an open that succeeds stores the O_TRUNC    *)
(* flag: on a streaming engine in eop_flush, with non_incr_addr untouched, *)
(* on a non-streaming engine in non_incr_addr; the open returns 0 with     *)
(* that value in place.  non_incr_addr then changes only in a              *)
(* SetAddressMode or a later open, and while it is set the position step   *)
(* of a read/write leaves the position alone.                              *)
C15_TruncateStamped ==
  [][\A t \in Callers :
       /\ (pc[t] = "op_mode" /\ pc'[t] # "op_mode" /\ rv'[t] = 0)
          => IF engine.streaming
             THEN /\ engine'.eop_flush = f_flags'[t].trunc
                  /\ engine'.non_incr_addr = engine.non_incr_addr
             ELSE engine'.non_incr_addr = f_flags'[t].trunc
       /\ (op'[t] = "open" /\ pc'[t] = "ret" /\ rv'[t] = 0)
          => IF engine'.streaming
             THEN engine'.eop_flush = f_flags'[t].trunc
             ELSE engine'.non_incr_addr = f_flags'[t].trunc
       /\ (engine'.non_incr_addr # engine.non_incr_addr /\ pc'[t] # pc[t])
          => pc[t] \in {"as_set", "op_mode"}
       /\ (pc[t] = "rw_pos" /\ pc'[t] # "rw_pos" /\ engine.non_incr_addr)
          => pos'[t] = pos[t]
    ]_vars

(* a non-streaming engine was opened with O_TRUNC *)
C15_Witness ==
  \E t \in Callers :
    /\ op[t] = "open" /\ pc[t] = "ret" /\ rv[t] = 0 /\ nopen = 1
    /\ f_flags[t].trunc /\ ~engine.streaming /\ engine.non_incr_addr
    /\ ~engine.eop_flush

(* C16: every step that changes engine.transfer_params or                  *)
(* engine.xdma2_perf is a step of the caller that holds busy, taken        *)
(* inside its critical section with the busy bit set before and after.     *)
C16_WriteUnderBusy ==
  [][(engine'.transfer_params # engine.transfer_params
        \/ engine'.xdma2_perf # engine.xdma2_perf)
       => /\ Busy /\ Busy' /\ holder \in Callers /\ holder' = holder
          /\ InCritical(holder) /\ InCritical(holder)'
          /\ pc'[holder] # pc[holder]
          /\ \A u \in Callers \ {holder} : pc'[u] = pc[u]
    ]_vars

(* parameters were staged by the holder while another caller was turned   *)
(* away, and a performance configuration is in the engine                  *)
C16_Witness ==
  \E t, u \in Callers :
    /\ t # u /\ holder = t /\ pc[t] = "rw_submit"
    /\ engine.transfer_params.buf = UserBuf
    /\ engine.transfer_params.length > 0
    /\ engine.xdma2_perf # NoPerf
    /\ pc[u] = "ret" /\ rv[u] = -EBUSY /\ op[u] = "submit_transfer"

(* C17: transfer_params live for one transfer only: a read/write or        *)
(* SubmitTransfer call that held busy leaves them cleared at its return,   *)
(* whatever the submission gave, so that with busy clear the engine holds  *)
(* no buffer pointer and no length of a finished transfer.                 *)
C17_ParamsScopedToTransfer ==
  /\ \A t \in Callers :
        (pc[t] = "ret" /\ op[t] \in TransferOps /\ path[t] # "busy"
           /\ path[t] \notin {"fault_request", "unsupported"})
          => /\ engine.transfer_params.buf = NULL
             /\ engine.transfer_params.length = 0
  /\ ~Busy => /\ engine.transfer_params.buf = NULL
              /\ engine.transfer_params.length = 0

(* C18: when the copy-in of the performance configuration leaves bytes     *)
(* uncopied, the call goes straight to its exit, never calls               *)
(* xdma2_performance_submit on the partial configuration, and returns a    *)
(* fault with busy clear.                                                  *)
C18_CopyInFailure ==
  [][\A t \in Callers :
       /\ (pc[t] = "pf_copy_in" /\ pc'[t] # "pf_copy_in" /\ rv'[t] # 0)
          => (pc'[t] = "pf_exit" /\ path'[t] = "fault_in")
       /\ (pc[t] = "pf_submit" /\ pc'[t] # "pf_submit")
          => path[t] = "copied_in"
       /\ (pc[t] = "pf_exit" /\ pc'[t] = "ret" /\ path[t] = "fault_in")
          => (rv'[t] < 0 /\ ~Busy')
    ]_vars

(* C19: after xdma2_xfer_submit the request's length gets the count and    *)
(* the call returns 0 when the result is not negative; it gets zero when   *)
(* the result is negative, and a negative result is the call's return      *)
(* value on every path, also when writing the length faults.               *)
C19_ResultReported ==
  [][\A t \in Callers :
       /\ (pc[t] = "st_put_length" /\ pc'[t] # "st_put_length")
          => /\ (transfer_res[t] >= 0 /\ path'[t] # "fault_out")
                  => (user_length'[t] = transfer_res[t] /\ rv'[t] = 0)
             /\ (transfer_res[t] < 0 /\ path'[t] # "fault_out")
                  => user_length'[t] = 0
             /\ transfer_res[t] < 0 => rv'[t] = transfer_res[t]
       /\ (pc[t] = "st_exit" /\ pc'[t] = "ret" /\ transfer_res[t] < 0)
          => rv'[t] = transfer_res[t]
    ]_vars

(* C20: every call that is inside a handler returns to its caller (each   *)
(* caller is outside again and again), every state with busy set is        *)
(* followed by one with busy clear (busy is clear again and again), and    *)
(* no call waits: whenever no return is being delivered, each call in      *)
(* flight has its next step enabled, whatever the busy and open bits are.  *)
C20_Progress ==
  /\ \A t \in Callers : []<>(pc[t] = "idle")
  /\ []<>(~Busy)
  /\ [](\A t \in Callers :
          (pc[t] # "idle" /\ \A u \in Callers \ {t} : pc[u] # "ret")
            => ENABLED <<Continue(t)>>_vars)

(* a caller was turned away at once while another one holds busy inside    *)
(* the submission                                                          *)
C20_Witness ==
  \E t, u \in Callers :
    /\ t # u /\ holder = t /\ Busy /\ pc[t] = "pf_submit"
    /\ pc[u] = "ret" /\ rv[u] = -EBUSY /\ op[u] = "read_write"

(* C21: in every state the open bit is set exactly when a successful,     *)
(* not yet closed open exists, and an open is turned away with -EBUSY      *)
(* only when such a handle exists - also when another open that will be    *)
(* denied with -EACCES is under way.                                       *)
C21_OpenBitIffHandle ==
  [][/\ \A t \in Callers :
          (OpenTasStep(t) /\ rv'[t] = -EBUSY) => nopen = 1
     /\ Open <=> nopen = 1
     /\ Open' <=> nopen' = 1
    ]_vars

(* C22: while a read/write or submit-transfer call holds the busy bit, no  *)
(* step of any caller changes engine->non_incr_addr, from the step that    *)
(* takes the bit to the step that clears it, so the value char_sgdma_      *)
(* read_write tests after the submission is the one the engine had when    *)
(* the call took the bit: an address-mode set started meanwhile returns    *)
(* -EBUSY (or -EFAULT) before it writes, an open started meanwhile returns *)
(* -EBUSY because the handle of the running call keeps the open bit set,   *)
(* and the release of that handle does not run before the call returns.    *)
TransferHoldsBusy ==
  holder \in Callers /\ op[holder] \in TransferOps

====
